---- MODULE Spec2Model ----
(***************************************************************************)
(* Kryptos: the cipher functions of src/src/crypto-utils.ts and the form   *)
(* handlers of src/src/App.tsx.                                            *)
(*                                                                         *)
(* A JavaScript string is modelled as the sequence of its UTF-16 code      *)
(* units (naturals below 65536).  A call that may throw returns a record   *)
(* [ok, val, err, did]: val is the returned string when ok, err the parts  *)
(* of the thrown Error's message otherwise, and did the platform or        *)
(* library calls and per-character transformations made before returning.  *)
(***************************************************************************)
EXTENDS Integers, Sequences, FiniteSets, TLC

(* ------------------------------------------------------------------ *)
(* Bounds of the model                                                 *)
(* ------------------------------------------------------------------ *)
MaxLen == 2
MaxKeyLen == 2
ShiftBound == 30
MaxGenLen == 3

(* ------------------------------------------------------------------ *)
(* Results of calls                                                    *)
(* ------------------------------------------------------------------ *)
Ok(v, d) == [ok |-> TRUE, val |-> v, err |-> <<>>, did |-> d]
Err(e, d) == [ok |-> FALSE, val |-> <<>>, err |-> e, did |-> d]
NoResult == [ok |-> FALSE, val |-> <<>>, err |-> <<"not called">>, did |-> <<>>]

SeqsUpTo(S, n) == UNION {[1..k -> S] : k \in 0..n}

(* ------------------------------------------------------------------ *)
(* JavaScript arithmetic                                               *)
(* ------------------------------------------------------------------ *)
\* a % b of JavaScript: the remainder takes the sign of the dividend.
JsRem(a, b) == IF a >= 0 THEN a % b ELSE 0 - ((0 - a) % b)

\* String.fromCharCode applies ToUint16 to its argument.
fromCharCode(n) == n % 65536

\* a ^ b of JavaScript on two code units.
RECURSIVE BitXor(_, _)
BitXor(a, b) ==
    IF a = 0 THEN b
    ELSE IF b = 0 THEN a
    ELSE (((a % 2) + (b % 2)) % 2) + 2 * BitXor(a \div 2, b \div 2)

(* ------------------------------------------------------------------ *)
(* btoa / atob                                                         *)
(* ------------------------------------------------------------------ *)
B64Char(i) ==
    IF i < 26 THEN 65 + i
    ELSE IF i < 52 THEN 97 + (i - 26)
    ELSE IF i < 62 THEN 48 + (i - 52)
    ELSE IF i = 62 THEN 43
    ELSE 47

B64Index(c) ==
    IF c >= 65 /\ c <= 90 THEN c - 65
    ELSE IF c >= 97 /\ c <= 122 THEN c - 97 + 26
    ELSE IF c >= 48 /\ c <= 57 THEN c - 48 + 52
    ELSE IF c = 43 THEN 62
    ELSE IF c = 47 THEN 63
    ELSE 0 - 1

IsLatin1(s) == \A i \in 1..Len(s) : s[i] <= 255

\* btoa on a string of code units <= 255 (btoa throws on any other string).
RECURSIVE btoa(_)
btoa(b) ==
    IF Len(b) = 0 THEN <<>>
    ELSE IF Len(b) = 1 THEN
        <<B64Char(b[1] \div 4), B64Char((b[1] % 4) * 16), 61, 61>>
    ELSE IF Len(b) = 2 THEN
        <<B64Char(b[1] \div 4), B64Char((b[1] % 4) * 16 + b[2] \div 16),
          B64Char((b[2] % 16) * 4), 61>>
    ELSE
        <<B64Char(b[1] \div 4), B64Char((b[1] % 4) * 16 + b[2] \div 16),
          B64Char((b[2] % 16) * 4 + b[3] \div 64), B64Char(b[3] % 64)>>
        \o btoa(SubSeq(b, 4, Len(b)))

IsAsciiWhitespace(c) == c \in {9, 10, 12, 13, 32}

\* The 6-bit groups of a padding-free base64 string, decoded to bytes; a
\* trailing group of 2 or 3 characters drops its unused low bits.
RECURSIVE B64DecodeGroups(_)
B64DecodeGroups(s) ==
    IF Len(s) = 0 THEN <<>>
    ELSE IF Len(s) = 2 THEN
        <<B64Index(s[1]) * 4 + B64Index(s[2]) \div 16>>
    ELSE IF Len(s) = 3 THEN
        <<B64Index(s[1]) * 4 + B64Index(s[2]) \div 16,
          (B64Index(s[2]) % 16) * 16 + B64Index(s[3]) \div 4>>
    ELSE
        <<B64Index(s[1]) * 4 + B64Index(s[2]) \div 16,
          (B64Index(s[2]) % 16) * 16 + B64Index(s[3]) \div 4,
          (B64Index(s[3]) % 4) * 64 + B64Index(s[4])>>
        \o B64DecodeGroups(SubSeq(s, 5, Len(s)))

\* atob: the forgiving-base64 decode.  [ok |-> FALSE] is the thrown
\* InvalidCharacterError.
atob(s) ==
    LET stripped == SelectSeq(s, LAMBDA c : ~IsAsciiWhitespace(c))
        n == Len(stripped)
        unpadded ==
            IF n % 4 = 0 /\ n >= 2 /\ stripped[n] = 61 /\ stripped[n - 1] = 61
                THEN SubSeq(stripped, 1, n - 2)
            ELSE IF n % 4 = 0 /\ n >= 1 /\ stripped[n] = 61
                THEN SubSeq(stripped, 1, n - 1)
            ELSE stripped
    IN  IF Len(unpadded) % 4 = 1 THEN [ok |-> FALSE, val |-> <<>>]
        ELSE IF \E i \in 1..Len(unpadded) : B64Index(unpadded[i]) < 0
            THEN [ok |-> FALSE, val |-> <<>>]
        ELSE [ok |-> TRUE, val |-> B64DecodeGroups(unpadded)]

(* ------------------------------------------------------------------ *)
(* XOR cipher                                                          *)
(* ------------------------------------------------------------------ *)
\* The loop of encryptXOR and decryptXOR: character i (0-based) is XORed
\* with key.charCodeAt(i % key.length).
XorLoop(text, key) ==
    [i \in 1..Len(text) |->
        fromCharCode(BitXor(text[i], key[((i - 1) % Len(key)) + 1]))]

XorDid(text) == [i \in 1..Len(text) |-> "xor"]

encryptXOR(text, key) ==
    IF key = <<>> THEN Err(<<"Key cannot be empty">>, <<>>)
    ELSE LET result == XorLoop(text, key)
         IN  IF IsLatin1(result)
                THEN Ok(btoa(result), XorDid(text) \o <<"btoa">>)
                ELSE Err(<<"InvalidCharacterError">>, XorDid(text) \o <<"btoa">>)

\* decryptXOR with the empty-key check moved into the try block, after atob.
decryptXOR_CheckInTry(ciphertext, key) ==
    LET decoded == atob(ciphertext)
    IN  IF ~decoded.ok \/ key = <<>>
            THEN Err(<<"XOR decryption failed: Invalid data or key">>, <<"atob">>)
            ELSE Ok(XorLoop(decoded.val, key), <<"atob">> \o XorDid(decoded.val))

decryptXOR(ciphertext, key) ==
    IF key = <<>> THEN Err(<<"Key cannot be empty">>, <<>>)
    ELSE LET decoded == atob(ciphertext)
         IN  IF ~decoded.ok
                THEN Err(<<"XOR decryption failed: Invalid data or key">>, <<"atob">>)
                ELSE Ok(XorLoop(decoded.val, key), <<"atob">> \o XorDid(decoded.val))

(* ------------------------------------------------------------------ *)
(* Caesar cipher                                                       *)
(* ------------------------------------------------------------------ *)
IsUpperCase(code) == code >= 65 /\ code <= 90
IsLowerCase(code) == code >= 97 /\ code <= 122
\* The characters the pattern /[a-zA-Z]/g matches.
IsLetter(code) == IsUpperCase(code) \/ IsLowerCase(code)

\* The replacement callback with the lower-case base for every letter.
CaesarChar_LowerBase(code, shift) ==
    fromCharCode(JsRem(code - 97 + shift, 26) + 97)

\* The replacement callback of encryptCaesar.
CaesarChar(code, shift) ==
    LET base == IF IsUpperCase(code) THEN 65 ELSE 97
    IN  fromCharCode(JsRem(code - base + shift, 26) + base)

encryptCaesar(text, shift) ==
    [i \in 1..Len(text) |->
        IF IsLetter(text[i]) THEN CaesarChar(text[i], shift) ELSE text[i]]

\* decryptCaesar written as a shift back by `shift`, without the 26.
decryptCaesar_NegatedShift(ciphertext, shift) == encryptCaesar(ciphertext, 0 - shift)

\* decryptCaesar with the complement taken from 25 instead of 26.
decryptCaesar_OffByOne(ciphertext, shift) == encryptCaesar(ciphertext, 25 - shift)

decryptCaesar(ciphertext, shift) == encryptCaesar(ciphertext, 26 - shift)

(* ------------------------------------------------------------------ *)
(* UTF-8, as CryptoJS.enc.Utf8 converts strings and bytes              *)
(* ------------------------------------------------------------------ *)
IsHighSurrogate(c) == c >= 55296 /\ c <= 56319
IsLowSurrogate(c) == c >= 56320 /\ c <= 57343
IsContinuation(b) == b >= 128 /\ b <= 191

\* encodeURIComponent throws URIError on a string with a lone surrogate.
RECURSIVE IsWellFormed(_)
IsWellFormed(s) ==
    IF Len(s) = 0 THEN TRUE
    ELSE IF IsHighSurrogate(s[1]) THEN
        Len(s) >= 2 /\ IsLowSurrogate(s[2]) /\ IsWellFormed(SubSeq(s, 3, Len(s)))
    ELSE ~IsLowSurrogate(s[1]) /\ IsWellFormed(SubSeq(s, 2, Len(s)))

RECURSIVE Utf8Bytes(_)
Utf8Bytes(s) ==
    IF Len(s) = 0 THEN <<>>
    ELSE IF s[1] < 128 THEN <<s[1]>> \o Utf8Bytes(SubSeq(s, 2, Len(s)))
    ELSE IF s[1] < 2048 THEN
        <<192 + s[1] \div 64, 128 + (s[1] % 64)>> \o Utf8Bytes(SubSeq(s, 2, Len(s)))
    ELSE IF IsHighSurrogate(s[1]) THEN
        LET cp == 65536 + (s[1] - 55296) * 1024 + (s[2] - 56320)
        IN  <<240 + cp \div 262144, 128 + ((cp \div 4096) % 64),
              128 + ((cp \div 64) % 64), 128 + (cp % 64)>>
            \o Utf8Bytes(SubSeq(s, 3, Len(s)))
    ELSE
        <<224 + s[1] \div 4096, 128 + ((s[1] \div 64) % 64), 128 + (s[1] % 64)>>
        \o Utf8Bytes(SubSeq(s, 2, Len(s)))

\* CryptoJS.enc.Utf8.parse: the UTF-8 bytes of a string; [ok |-> FALSE] is the
\* URIError ("URI malformed") of a lone surrogate.
Utf8Parse(s) ==
    IF IsWellFormed(s) THEN [ok |-> TRUE, val |-> Utf8Bytes(s)]
    ELSE [ok |-> FALSE, val |-> <<>>]

\* The code units the first UTF-8 sequence of b decodes to, with the number of
\* bytes it takes; n = 0 when b does not start with a valid sequence.
Utf8First(b) ==
    IF b[1] < 128 THEN [n |-> 1, units |-> <<b[1]>>]
    ELSE IF b[1] >= 194 /\ b[1] <= 223 /\ Len(b) >= 2 /\ IsContinuation(b[2]) THEN
        [n |-> 2, units |-> <<(b[1] - 192) * 64 + (b[2] - 128)>>]
    ELSE IF b[1] >= 224 /\ b[1] <= 239 /\ Len(b) >= 3
            /\ IsContinuation(b[2]) /\ IsContinuation(b[3]) THEN
        LET cp == (b[1] - 224) * 4096 + (b[2] - 128) * 64 + (b[3] - 128)
        IN  IF cp < 2048 \/ IsHighSurrogate(cp) \/ IsLowSurrogate(cp)
                THEN [n |-> 0, units |-> <<>>]
                ELSE [n |-> 3, units |-> <<cp>>]
    ELSE IF b[1] >= 240 /\ b[1] <= 244 /\ Len(b) >= 4 /\ IsContinuation(b[2])
            /\ IsContinuation(b[3]) /\ IsContinuation(b[4]) THEN
        LET cp == (b[1] - 240) * 262144 + (b[2] - 128) * 4096
                  + (b[3] - 128) * 64 + (b[4] - 128)
        IN  IF cp < 65536 \/ cp > 1114111
                THEN [n |-> 0, units |-> <<>>]
                ELSE [n |-> 4, units |-> <<55296 + (cp - 65536) \div 1024,
                                           56320 + ((cp - 65536) % 1024)>>]
    ELSE [n |-> 0, units |-> <<>>]

\* WordArray.toString(CryptoJS.enc.Utf8): the string the bytes encode;
\* [ok |-> FALSE] is the thrown Error("Malformed UTF-8 data").
RECURSIVE Utf8Stringify(_)
Utf8Stringify(b) ==
    IF Len(b) = 0 THEN [ok |-> TRUE, val |-> <<>>]
    ELSE LET f == Utf8First(b)
         IN  IF f.n = 0 THEN [ok |-> FALSE, val |-> <<>>]
             ELSE LET rest == Utf8Stringify(SubSeq(b, f.n + 1, Len(b)))
                  IN  IF rest.ok THEN [ok |-> TRUE, val |-> f.units \o rest.val]
                      ELSE [ok |-> FALSE, val |-> <<>>]

(* ------------------------------------------------------------------ *)
(* AES (CryptoJS), as an ideal passphrase cipher                       *)
(*                                                                     *)
(* CryptoJS.AES.encrypt(text, passphrase).toString() is the base64 of  *)
(* "Salted__", a random salt and the encrypted blocks.  The blocks are *)
(* kept symbolic: they carry the passphrase bytes and the message      *)
(* bytes, and only a decryption under the same passphrase opens them.  *)
(* Any other (ciphertext, passphrase) makes the library throw or hand  *)
(* back arbitrary bytes, the choice being the caller's `oracle`.       *)
(* ------------------------------------------------------------------ *)
Salted == <<83, 97, 108, 116, 101, 100, 95, 95>>
SaltOf(r) == [i \in 1..8 |-> r]

CryptoJSAESEncrypt(text, passphrase, r) ==
    LET m == Utf8Parse(text)
        k == Utf8Parse(passphrase)
    IN  IF ~m.ok \/ ~k.ok THEN [throws |-> TRUE, msg |-> "URI malformed", val |-> <<>>]
        ELSE [throws |-> FALSE, msg |-> "",
              val |-> btoa(Salted \o SaltOf(r) \o <<Len(k.val)>> \o k.val \o m.val)]

CryptoJSAESDecrypt(ciphertext, passphrase, oracle) ==
    LET raw == atob(ciphertext)
        k == Utf8Parse(passphrase)
        n == Len(k.val)
        opens == /\ raw.ok
                 /\ Len(raw.val) >= 17 + n
                 /\ SubSeq(raw.val, 1, 8) = Salted
                 /\ raw.val[17] = n
                 /\ SubSeq(raw.val, 18, 17 + n) = k.val
    IN  IF ~k.ok THEN [throws |-> TRUE, msg |-> "URI malformed", bytes |-> <<>>]
        ELSE IF opens
            THEN [throws |-> FALSE, msg |-> "",
                  bytes |-> SubSeq(raw.val, 18 + n, Len(raw.val))]
        ELSE oracle

encryptAES(text, key, r) ==
    LET c == CryptoJSAESEncrypt(text, key, r)
    IN  IF c.throws
            THEN Err(<<"AES encryption failed: ", c.msg>>, <<"CryptoJS.AES.encrypt">>)
            ELSE Ok(c.val, <<"CryptoJS.AES.encrypt">>)

\* decryptAES without the `if (!decrypted) throw` line.
decryptAES_NoEmptyCheck(ciphertext, key, oracle) ==
    LET bytes == CryptoJSAESDecrypt(ciphertext, key, oracle)
        decrypted == Utf8Stringify(bytes.bytes)
        did == <<"CryptoJS.AES.decrypt">>
    IN  IF bytes.throws THEN Err(<<"AES decryption failed: ", bytes.msg>>, did)
        ELSE IF ~decrypted.ok
            THEN Err(<<"AES decryption failed: ", "Malformed UTF-8 data">>, did)
        ELSE Ok(decrypted.val, did)

decryptAES(ciphertext, key, oracle) ==
    LET bytes == CryptoJSAESDecrypt(ciphertext, key, oracle)
        decrypted == Utf8Stringify(bytes.bytes)
        did == <<"CryptoJS.AES.decrypt">>
    IN  IF bytes.throws THEN Err(<<"AES decryption failed: ", bytes.msg>>, did)
        ELSE IF ~decrypted.ok
            THEN Err(<<"AES decryption failed: ", "Malformed UTF-8 data">>, did)
        ELSE IF decrypted.val = <<>>
            THEN Err(<<"AES decryption failed: ", "Invalid key or corrupted data">>, did)
        ELSE Ok(decrypted.val, did)

\* The letter n places further in its own alphabet, n counted modulo 26.
Rotate26(code, n) ==
    IF IsUpperCase(code) THEN 65 + ((code - 65 + n) % 26)
    ELSE 97 + ((code - 97 + n) % 26)
(* ------------------------------------------------------------------ *)
(* Triple DES (encrypt3DES / decrypt3DES are imported by App.tsx from  *)
(* crypto-utils): the same contract as AES over another block cipher.  *)
(* ------------------------------------------------------------------ *)
CryptoJS3DESEncrypt(text, passphrase, r) ==
    LET m == Utf8Parse(text)
        k == Utf8Parse(passphrase)
    IN  IF ~m.ok \/ ~k.ok THEN [throws |-> TRUE, msg |-> "URI malformed", val |-> <<>>]
        ELSE [throws |-> FALSE, msg |-> "",
              val |-> btoa(Salted \o SaltOf(r) \o <<128 + Len(k.val)>> \o k.val \o m.val)]

CryptoJS3DESDecrypt(ciphertext, passphrase, oracle) ==
    LET raw == atob(ciphertext)
        k == Utf8Parse(passphrase)
        n == Len(k.val)
        opens == /\ raw.ok
                 /\ Len(raw.val) >= 17 + n
                 /\ SubSeq(raw.val, 1, 8) = Salted
                 /\ raw.val[17] = 128 + n
                 /\ SubSeq(raw.val, 18, 17 + n) = k.val
    IN  IF ~k.ok THEN [throws |-> TRUE, msg |-> "URI malformed", bytes |-> <<>>]
        ELSE IF opens
            THEN [throws |-> FALSE, msg |-> "",
                  bytes |-> SubSeq(raw.val, 18 + n, Len(raw.val))]
        ELSE oracle

encrypt3DES(text, key, r) ==
    LET c == CryptoJS3DESEncrypt(text, key, r)
    IN  IF c.throws
            THEN Err(<<"3DES encryption failed: ", c.msg>>, <<"CryptoJS.TripleDES.encrypt">>)
            ELSE Ok(c.val, <<"CryptoJS.TripleDES.encrypt">>)

decrypt3DES(ciphertext, key, oracle) ==
    LET bytes == CryptoJS3DESDecrypt(ciphertext, key, oracle)
        decrypted == Utf8Stringify(bytes.bytes)
        did == <<"CryptoJS.TripleDES.decrypt">>
    IN  IF bytes.throws THEN Err(<<"3DES decryption failed: ", bytes.msg>>, did)
        ELSE IF ~decrypted.ok
            THEN Err(<<"3DES decryption failed: ", "Malformed UTF-8 data">>, did)
        ELSE IF decrypted.val = <<>>
            THEN Err(<<"3DES decryption failed: ", "Invalid key or corrupted data">>, did)
        ELSE Ok(decrypted.val, did)

(* ------------------------------------------------------------------ *)
(* Vigenere (encryptVigenere / decryptVigenere are imported by App.tsx *)
(* from crypto-utils)                                                  *)
(* ------------------------------------------------------------------ *)
\* A=0 .. Z=25, whatever the case
LetterPos(code) == IF IsUpperCase(code) THEN code - 65 ELSE code - 97

KeywordLetters(keyword) == SelectSeq(keyword, IsLetter)

\* VigenereFrom with the keyword position advanced on every character
RECURSIVE VigenereFrom_EveryPosition(_, _, _, _, _)
VigenereFrom_EveryPosition(text, kw, i, j, sign) ==
    IF i > Len(text) THEN <<>>
    ELSE IF IsLetter(text[i]) THEN
        <<Rotate26(text[i], sign * LetterPos(kw[(j % Len(kw)) + 1]))>>
        \o VigenereFrom_EveryPosition(text, kw, i + 1, j + 1, sign)
    ELSE <<text[i]>> \o VigenereFrom_EveryPosition(text, kw, i + 1, j + 1, sign)

\* The text from position i on, with j keyword letters consumed so far;
\* sign is 1 to encrypt and -1 to decrypt.
RECURSIVE VigenereFrom(_, _, _, _, _)
VigenereFrom(text, kw, i, j, sign) ==
    IF i > Len(text) THEN <<>>
    ELSE IF IsLetter(text[i]) THEN
        <<Rotate26(text[i], sign * LetterPos(kw[(j % Len(kw)) + 1]))>>
        \o VigenereFrom(text, kw, i + 1, j + 1, sign)
    ELSE <<text[i]>> \o VigenereFrom(text, kw, i + 1, j, sign)

encryptVigenere(text, keyword) ==
    IF KeywordLetters(keyword) = <<>> THEN Err(<<"Key cannot be empty">>, <<>>)
    ELSE Ok(VigenereFrom(text, KeywordLetters(keyword), 1, 0, 1), <<>>)

decryptVigenere(ciphertext, keyword) ==
    IF KeywordLetters(keyword) = <<>> THEN Err(<<"Key cannot be empty">>, <<>>)
    ELSE Ok(VigenereFrom(ciphertext, KeywordLetters(keyword), 1, 0, 0 - 1), <<>>)

(* ------------------------------------------------------------------ *)
(* RSA-OAEP (Web Crypto), as an ideal public-key cipher                *)
(*                                                                     *)
(* Key pair n has the blobs PublicKeyBlob(n) and PrivateKeyBlob(n) in  *)
(* place of its DER structures.  A ciphertext is kept symbolic: it     *)
(* names the pair and carries the message bytes, and only the private  *)
(* key of that pair opens it.                                          *)
(* ------------------------------------------------------------------ *)
MaxOaepPayload == 190
PublicKeyBlob(n) == <<48, 1, n>>
PrivateKeyBlob(n) == <<48, 2, n>>

arrayBufferToBase64(buffer) == btoa(buffer)

\* [ok |-> FALSE] is the InvalidCharacterError of atob.
base64ToArrayBuffer(base64) == atob(base64)

generateRSAKeyPair(n) ==
    [publicKey |-> arrayBufferToBase64(PublicKeyBlob(n)),
     privateKey |-> arrayBufferToBase64(PrivateKeyBlob(n))]

\* crypto.subtle.importKey: the pair of a well-formed blob of the format, or
\* the rejection (DataError) of anything else.
importKey(format, blob) ==
    IF /\ Len(blob) = 3
       /\ blob[1] = 48
       /\ blob[2] = (IF format = "spki" THEN 1 ELSE 2)
       /\ blob[3] >= 1
        THEN [ok |-> TRUE, pair |-> blob[3]]
        ELSE [ok |-> FALSE, pair |-> 0]

\* A lone surrogate becomes U+FFFD in TextEncoder.encode.
RECURSIVE ToWellFormed(_)
ToWellFormed(s) ==
    IF Len(s) = 0 THEN <<>>
    ELSE IF IsHighSurrogate(s[1]) /\ Len(s) >= 2 /\ IsLowSurrogate(s[2]) THEN
        <<s[1], s[2]>> \o ToWellFormed(SubSeq(s, 3, Len(s)))
    ELSE IF IsHighSurrogate(s[1]) \/ IsLowSurrogate(s[1]) THEN
        <<65533>> \o ToWellFormed(SubSeq(s, 2, Len(s)))
    ELSE <<s[1]>> \o ToWellFormed(SubSeq(s, 2, Len(s)))

TextEncode(s) == Utf8Bytes(ToWellFormed(s))

\* TextDecoder.decode: a byte that starts no valid sequence becomes U+FFFD.
RECURSIVE TextDecode(_)
TextDecode(b) ==
    IF Len(b) = 0 THEN <<>>
    ELSE LET f == Utf8First(b)
         IN  IF f.n = 0 THEN <<65533>> \o TextDecode(SubSeq(b, 2, Len(b)))
             ELSE f.units \o TextDecode(SubSeq(b, f.n + 1, Len(b)))

\* crypto.subtle.encrypt under the public key of `pair`, with OAEP seed r.
subtleEncrypt(pair, encoded, r) ==
    IF Len(encoded) > MaxOaepPayload THEN [ok |-> FALSE, val |-> <<>>]
    ELSE [ok |-> TRUE, val |-> <<pair, r>> \o encoded]

\* crypto.subtle.decrypt under the private key of `pair`.
subtleDecrypt(pair, encrypted) ==
    IF Len(encrypted) >= 2 /\ encrypted[1] = pair
        THEN [ok |-> TRUE, val |-> SubSeq(encrypted, 3, Len(encrypted))]
        ELSE [ok |-> FALSE, val |-> <<>>]

encryptRSA(text, publicKeyStr, r) ==
    LET blob == base64ToArrayBuffer(publicKeyStr)
        publicKey == importKey("spki", blob.val)
        encoded == TextEncode(text)
        encrypted == subtleEncrypt(publicKey.pair, encoded, r)
    IN  IF ~blob.ok THEN
            Err(<<"RSA encryption failed: ", "InvalidCharacterError">>, <<"atob">>)
        ELSE IF ~publicKey.ok THEN
            Err(<<"RSA encryption failed: ", "DataError">>, <<"atob", "importKey">>)
        ELSE IF ~encrypted.ok THEN
            Err(<<"RSA encryption failed: ", "OperationError">>,
                <<"atob", "importKey", "encode", "encrypt">>)
        ELSE Ok(arrayBufferToBase64(encrypted.val),
                <<"atob", "importKey", "encode", "encrypt", "btoa">>)

\* decryptRSA with the ciphertext decoded before the key is imported.
decryptRSA_CiphertextFirst(ciphertext, privateKeyStr) ==
    LET encrypted == base64ToArrayBuffer(ciphertext)
        blob == base64ToArrayBuffer(privateKeyStr)
        privateKey == importKey("pkcs8", blob.val)
        decrypted == subtleDecrypt(privateKey.pair, encrypted.val)
    IN  IF ~encrypted.ok THEN
            Err(<<"RSA decryption failed: ", "InvalidCharacterError">>, <<"atob">>)
        ELSE IF ~blob.ok THEN
            Err(<<"RSA decryption failed: ", "InvalidCharacterError">>, <<"atob", "atob">>)
        ELSE IF ~privateKey.ok THEN
            Err(<<"RSA decryption failed: ", "DataError">>, <<"atob", "atob", "importKey">>)
        ELSE IF ~decrypted.ok THEN
            Err(<<"RSA decryption failed: ", "OperationError">>,
                <<"atob", "atob", "importKey", "decrypt">>)
        ELSE Ok(TextDecode(decrypted.val),
                <<"atob", "atob", "importKey", "decrypt", "decode">>)

decryptRSA(ciphertext, privateKeyStr) ==
    LET blob == base64ToArrayBuffer(privateKeyStr)
        privateKey == importKey("pkcs8", blob.val)
        encrypted == base64ToArrayBuffer(ciphertext)
        decrypted == subtleDecrypt(privateKey.pair, encrypted.val)
    IN  IF ~blob.ok THEN
            Err(<<"RSA decryption failed: ", "InvalidCharacterError">>, <<"atob">>)
        ELSE IF ~privateKey.ok THEN
            Err(<<"RSA decryption failed: ", "DataError">>, <<"atob", "importKey">>)
        ELSE IF ~encrypted.ok THEN
            Err(<<"RSA decryption failed: ", "InvalidCharacterError">>,
                <<"atob", "importKey", "atob">>)
        ELSE IF ~decrypted.ok THEN
            Err(<<"RSA decryption failed: ", "OperationError">>,
                <<"atob", "importKey", "atob", "decrypt">>)
        ELSE Ok(TextDecode(decrypted.val),
                <<"atob", "importKey", "atob", "decrypt", "decode">>)

(* ------------------------------------------------------------------ *)
(* Key generators; `array` is what crypto.getRandomValues filled in    *)
(* ------------------------------------------------------------------ *)
HexDigit(d) == IF d < 10 THEN 48 + d ELSE 87 + d

\* byte.toString(16).padStart(2, "0") of every byte, joined
RECURSIVE HexOf(_)
HexOf(array) ==
    IF Len(array) = 0 THEN <<>>
    ELSE <<HexDigit(array[1] \div 16), HexDigit(array[1] % 16)>>
         \o HexOf(SubSeq(array, 2, Len(array)))

AESKeyBytes == 32
generateAESKey(array) == HexOf(array)

TripleDESKeyBytes == 24
generate3DESKey(array) == HexOf(array)

\* "ABCDEFGHIJKLMNOPQRSTUVWXYZabcdefghijklmnopqrstuvwxyz0123456789"
XorKeyAlphabet ==
    [i \in 1..62 |-> IF i <= 26 THEN 64 + i ELSE IF i <= 52 THEN 70 + i ELSE i - 5]
XorKeyLength == 16
XorKeyDefaultLength == 16
\* the length parameter: args is <<>> when the caller passes none
LengthParameter(args) == IF args = <<>> THEN XorKeyDefaultLength ELSE args[1]

\* generateXORKey indexing the character codes from "0" instead of the alphabet
generateXORKey_CodeOffset(array) ==
    [i \in 1..Len(array) |-> 48 + (array[i] % Len(XorKeyAlphabet))]

generateXORKey(array) ==
    [i \in 1..Len(array) |-> XorKeyAlphabet[(array[i] % Len(XorKeyAlphabet)) + 1]]

\* generateCaesarShift reducing the byte modulo 26
generateCaesarShift_Mod26(array) == (array[1] % 26) + 1

generateCaesarShift(array) == (array[1] % 25) + 1

VigenereKeyLength == 8
generateVigenereKey(array) == [i \in 1..Len(array) |-> 65 + (array[i] % 26)]

(* ------------------------------------------------------------------ *)
(* Number conversions of App.tsx                                       *)
(* ------------------------------------------------------------------ *)
IsDigit(c) == c >= 48 /\ c <= 57
IsStrWhiteSpace(c) == c \in {9, 10, 11, 12, 13, 32, 160, 65279}

RECURSIVE SkipWhiteSpace(_)
SkipWhiteSpace(s) ==
    IF Len(s) > 0 /\ IsStrWhiteSpace(s[1]) THEN SkipWhiteSpace(SubSeq(s, 2, Len(s)))
    ELSE s

\* The value of the longest prefix of decimal digits of s, after acc.
RECURSIVE DigitsValue(_, _)
DigitsValue(s, acc) ==
    IF Len(s) > 0 /\ IsDigit(s[1])
        THEN DigitsValue(SubSeq(s, 2, Len(s)), acc * 10 + (s[1] - 48))
        ELSE acc

\* parseInt(s) in radix 10: leading white space, a sign, then digits up to
\* the first other character; nan when no digit follows the sign.
parseInt(s) ==
    LET t == SkipWhiteSpace(s)
        signed == Len(t) > 0 /\ t[1] \in {43, 45}
        body == IF signed THEN SubSeq(t, 2, Len(t)) ELSE t
    IN  IF Len(body) = 0 \/ ~IsDigit(body[1]) THEN [nan |-> TRUE, val |-> 0]
        ELSE [nan |-> FALSE,
              val |-> IF signed /\ t[1] = 45 THEN 0 - DigitsValue(body, 0)
                      ELSE DigitsValue(body, 0)]

\* parseInt(key) || 0
ShiftOf(key) == IF parseInt(key).nan THEN 0 ELSE parseInt(key).val

\* (n).toString() of a non-negative integer
RECURSIVE NatToString(_)
NatToString(n) ==
    IF n < 10 THEN <<48 + n>> ELSE NatToString(n \div 10) \o <<48 + (n % 10)>>

(* ------------------------------------------------------------------ *)
(* Messages App.tsx puts in the output field                           *)
(* ------------------------------------------------------------------ *)
MsgRSAKeysGenerated ==
    <<82, 83, 65, 32, 107, 101, 121, 32, 112, 97, 105, 114, 32, 103, 101, 110,
      101, 114, 97, 116, 101, 100, 32, 115, 117, 99, 99, 101, 115, 115, 102, 117,
      108, 108, 121, 33>>
MsgAESKeyGenerated ==
    <<65, 69, 83, 32, 107, 101, 121, 32, 103, 101, 110, 101, 114, 97, 116, 101,
      100, 32, 115, 117, 99, 99, 101, 115, 115, 102, 117, 108, 108, 121, 33>>
Msg3DESKeyGenerated ==
    <<51, 68, 69, 83, 32, 107, 101, 121, 32, 103, 101, 110, 101, 114, 97, 116,
      101, 100, 32, 115, 117, 99, 99, 101, 115, 115, 102, 117, 108, 108, 121, 33>>
MsgXORKeyGenerated ==
    <<88, 79, 82, 32, 107, 101, 121, 32, 103, 101, 110, 101, 114, 97, 116, 101,
      100, 32, 115, 117, 99, 99, 101, 115, 115, 102, 117, 108, 108, 121, 33>>
MsgVigenereKeyGenerated ==
    <<86, 105, 103, 101, 110, 232, 114, 101, 32, 107, 101, 121, 32, 103, 101, 110,
      101, 114, 97, 116, 101, 100, 32, 115, 117, 99, 99, 101, 115, 115, 102, 117,
      108, 108, 121, 33>>
MsgCaesarShiftGenerated(n) ==
    <<67, 97, 101, 115, 97, 114, 32, 115, 104, 105, 102, 116, 32, 103, 101, 110,
      101, 114, 97, 116, 101, 100, 32, 115, 117, 99, 99, 101, 115, 115, 102, 117,
      108, 108, 121, 33, 32, 40, 83, 104, 105, 102, 116, 58, 32>>
    \o NatToString(n) \o <<41>>

(* ------------------------------------------------------------------ *)
(* Inputs of the cipher functions                                      *)
(* ------------------------------------------------------------------ *)
\* ' ', '@', 'A', 'Z', 'a', 'z', e-acute
CaesarChars == {32, 64, 65, 90, 97, 122, 233}
CaesarTexts == SeqsUpTo(CaesarChars, MaxLen)
Shifts == (0 - ShiftBound)..ShiftBound

\* 'H', 'e', y-diaeresis (255), euro sign (8364)
XorTextChars == {72, 101, 255, 8364}
XorTexts == SeqsUpTo(XorTextChars, MaxLen)
\* 'K', 'y', euro sign
XorKeyChars == {75, 121, 8364}
XorKeys == SeqsUpTo(XorKeyChars, MaxKeyLen)

\* 'A', e-acute, euro sign
AesTextChars == {65, 233, 8364}
AesTexts == SeqsUpTo(AesTextChars, MaxLen)
\* 'k', 'p'
AesKeyChars == {107, 112}
AesKeys == SeqsUpTo(AesKeyChars, MaxKeyLen)
Salts == {17, 34}
\* What CryptoJS.AES.decrypt does with a ciphertext the passphrase does not
\* open: it throws, or returns bytes that are empty, not UTF-8, or UTF-8.
AesOracles ==
    {[throws |-> TRUE, msg |-> "Malformed ciphertext", bytes |-> <<>>]}
    \cup {[throws |-> FALSE, msg |-> "", bytes |-> g] : g \in {<<>>, <<255>>, <<71>>}}

\* "", "a", the euro sign, "!", "AAAA"
RsaTexts == {<<>>, <<97>>, <<8364>>, <<33>>, <<65, 65, 65, 65>>}
\* "", "!", "AAAA" and the keys of pairs 1 and 2
RsaKeyTexts ==
    {<<>>, <<33>>, <<65, 65, 65, 65>>}
    \cup {generateRSAKeyPair(n).publicKey : n \in {1, 2}}
    \cup {generateRSAKeyPair(n).privateKey : n \in {1, 2}}

\* "A", "z", " ", "1" in every arrangement, and "AB CD"
VigenereChars == {65, 122, 32, 49}
VigenereTexts == SeqsUpTo(VigenereChars, MaxLen) \cup {<<65, 66, 32, 67, 68>>}
\* "", "KEY", "b", "1"
VigenereKeys == {<<>>, <<75, 69, 89>>, <<98>>, <<49>>}

\* What crypto.getRandomValues writes into a Uint8Array of n bytes
RandomArray(n, seed) == [i \in 1..n |-> (seed + (i - 1) * 37) % 256]
Bytes == 0..255
LengthArguments == {<<>>} \cup {<<n>> : n \in 0..MaxGenLen}

NoLib == [throws |-> FALSE, msg |-> "not called", bytes |-> <<>>]

(* ------------------------------------------------------------------ *)
(* The cipher functions applied to inputs                              *)
(* ------------------------------------------------------------------ *)
VARIABLES
    cipher,   \* the cipher family under exercise
    text,     \* the input text
    ckey,     \* the key or passphrase (XOR, AES)
    shift,    \* the shift (Caesar)
    stage,    \* "input", "encrypted", "roundtrip" or "decrypted"
    enc,      \* the result of the encrypt call
    dkey,     \* the key given to the decrypt call
    lib,      \* what the platform call inside the last cipher call was given
              \* or gave: CryptoJS.AES.decrypt's bytes, btoa's argument
    dec       \* the result of the decrypt call

cvars == <<cipher, text, ckey, shift, stage, enc, dkey, lib, dec>>

(* ------------------------------------------------------------------ *)
(* The state of the App component                                      *)
(* ------------------------------------------------------------------ *)
VARIABLES
    inputText,   \* useState("")
    algorithm,   \* useState<Algorithm>("AES")
    key,         \* useState("")
    publicKey,   \* useState("")
    privateKey,  \* useState("")
    output,      \* useState("")
    isLoading,   \* useState(false)
    error,       \* useState(""): the parts of the message, <<>> for ""
    pending,     \* the handler runs suspended at an await, oldest first
    run          \* the dispatch of the handleEncrypt or handleDecrypt run
                 \* whose outcome the form shows

avars == <<inputText, algorithm, key, publicKey, privateKey, output, isLoading,
           error, pending, run>>
vars == <<cvars, avars>>

\* No handleEncrypt or handleDecrypt run is on display.
NoRun == [handler |-> "none", dispatched |-> FALSE, tag |-> "", fn |-> "none",
          shift |-> 0]

AppInit ==
    /\ inputText = <<>>
    /\ algorithm = "AES"
    /\ key = <<>>
    /\ publicKey = <<>>
    /\ privateKey = <<>>
    /\ output = <<>>
    /\ isLoading = FALSE
    /\ error = <<>>
    /\ pending = <<>>
    /\ run = NoRun

\* No cipher function is under exercise.
CipherIdle ==
    /\ cipher = "none"
    /\ text = <<>>
    /\ ckey = <<>>
    /\ shift = 0
    /\ stage = "input"
    /\ enc = NoResult
    /\ dkey = <<>>
    /\ lib = NoLib
    /\ dec = NoResult

CipherInit ==
    /\ \/ cipher = "Caesar" /\ text \in CaesarTexts /\ shift \in Shifts /\ ckey = <<>>
       \/ cipher = "XOR" /\ text \in XorTexts /\ ckey \in XorKeys /\ shift = 0
       \/ cipher = "AES" /\ text \in AesTexts /\ ckey \in AesKeys /\ shift = 0
       \/ cipher = "RSA" /\ text \in RsaTexts /\ ckey \in RsaKeyTexts /\ shift = 0
       \/ cipher = "Vigenere" /\ text \in VigenereTexts /\ ckey \in VigenereKeys /\ shift = 0
       \/ /\ cipher = "generateCaesarShift"
          /\ text \in {<<b>> : b \in Bytes} /\ ckey = <<>> /\ shift = 0
       \/ /\ cipher = "generateXORKey"
          /\ text \in {<<b>> : b \in Bytes} /\ ckey \in LengthArguments /\ shift = 0
    /\ stage = "input"
    /\ enc = NoResult
    /\ dkey = <<>>
    /\ lib = NoLib
    /\ dec = NoResult
    /\ AppInit

CaesarEncrypt ==
    /\ cipher = "Caesar" /\ stage = "input"
    /\ enc' = Ok(encryptCaesar(text, shift), <<>>)
    /\ stage' = "encrypted"
    /\ UNCHANGED <<cipher, text, ckey, shift, dkey, lib, dec>>
    /\ UNCHANGED avars

\* decryptCaesar on the output of encryptCaesar, with the same shift
CaesarDecrypt ==
    /\ cipher = "Caesar" /\ stage = "encrypted"
    /\ dec' = Ok(decryptCaesar(enc.val, shift), <<>>)
    /\ stage' = "roundtrip"
    /\ UNCHANGED <<cipher, text, ckey, shift, enc, dkey, lib>>
    /\ UNCHANGED avars

\* decryptCaesar on the input text itself
CaesarDecryptText ==
    /\ cipher = "Caesar" /\ stage = "input"
    /\ dec' = Ok(decryptCaesar(text, shift), <<>>)
    /\ stage' = "decrypted"
    /\ UNCHANGED <<cipher, text, ckey, shift, enc, dkey, lib>>
    /\ UNCHANGED avars

\* lib records the string encryptXOR hands to btoa, when it gets that far
XorEncrypt ==
    /\ cipher = "XOR" /\ stage = "input"
    /\ enc' = encryptXOR(text, ckey)
    /\ lib' = IF ckey = <<>> THEN lib
              ELSE [throws |-> ~IsLatin1(XorLoop(text, ckey)), msg |-> "btoa",
                    bytes |-> XorLoop(text, ckey)]
    /\ stage' = "encrypted"
    /\ UNCHANGED <<cipher, text, ckey, shift, dkey, dec>>
    /\ UNCHANGED avars

XorDecrypt ==
    /\ cipher = "XOR" /\ stage = "encrypted" /\ enc.ok
    /\ dec' = decryptXOR(enc.val, ckey)
    /\ dkey' = ckey
    /\ stage' = "roundtrip"
    /\ UNCHANGED <<cipher, text, ckey, shift, enc, lib>>
    /\ UNCHANGED avars

XorDecryptText ==
    /\ cipher = "XOR" /\ stage = "input"
    /\ dec' = decryptXOR(text, ckey)
    /\ dkey' = ckey
    /\ stage' = "decrypted"
    /\ UNCHANGED <<cipher, text, ckey, shift, enc, lib>>
    /\ UNCHANGED avars

AesEncrypt ==
    /\ cipher = "AES" /\ stage = "input"
    /\ \E r \in Salts : enc' = encryptAES(text, ckey, r)
    /\ stage' = "encrypted"
    /\ UNCHANGED <<cipher, text, ckey, shift, dkey, lib, dec>>
    /\ UNCHANGED avars

\* decryptAES on the token of encryptAES, under the same or another passphrase
AesDecrypt ==
    /\ cipher = "AES" /\ stage = "encrypted" /\ enc.ok
    /\ \E k \in AesKeys, o \in AesOracles :
        /\ dec' = decryptAES(enc.val, k, o)
        /\ lib' = CryptoJSAESDecrypt(enc.val, k, o)
        /\ dkey' = k
    /\ stage' = "roundtrip"
    /\ UNCHANGED <<cipher, text, ckey, shift, enc>>
    /\ UNCHANGED avars

AesDecryptText ==
    /\ cipher = "AES" /\ stage = "input"
    /\ \E o \in AesOracles :
        /\ dec' = decryptAES(text, ckey, o)
        /\ lib' = CryptoJSAESDecrypt(text, ckey, o)
    /\ dkey' = ckey
    /\ stage' = "decrypted"
    /\ UNCHANGED <<cipher, text, ckey, shift, enc>>
    /\ UNCHANGED avars

RsaEncrypt ==
    /\ cipher = "RSA" /\ stage = "input"
    /\ \E r \in Salts : enc' = encryptRSA(text, ckey, r)
    /\ stage' = "encrypted"
    /\ UNCHANGED <<cipher, text, ckey, shift, dkey, lib, dec>>
    /\ UNCHANGED avars

\* decryptRSA on the output of encryptRSA, under any key text
RsaDecrypt ==
    /\ cipher = "RSA" /\ stage = "encrypted" /\ enc.ok
    /\ \E k \in RsaKeyTexts :
        /\ dec' = decryptRSA(enc.val, k)
        /\ dkey' = k
    /\ stage' = "roundtrip"
    /\ UNCHANGED <<cipher, text, ckey, shift, enc, lib>>
    /\ UNCHANGED avars

RsaDecryptText ==
    /\ cipher = "RSA" /\ stage = "input"
    /\ dec' = decryptRSA(text, ckey)
    /\ dkey' = ckey
    /\ stage' = "decrypted"
    /\ UNCHANGED <<cipher, text, ckey, shift, enc, lib>>
    /\ UNCHANGED avars

VigenereEncrypt ==
    /\ cipher = "Vigenere" /\ stage = "input"
    /\ enc' = encryptVigenere(text, ckey)
    /\ stage' = "encrypted"
    /\ UNCHANGED <<cipher, text, ckey, shift, dkey, lib, dec>>
    /\ UNCHANGED avars

VigenereDecrypt ==
    /\ cipher = "Vigenere" /\ stage = "encrypted" /\ enc.ok
    /\ dec' = decryptVigenere(enc.val, ckey)
    /\ dkey' = ckey
    /\ stage' = "roundtrip"
    /\ UNCHANGED <<cipher, text, ckey, shift, enc, lib>>
    /\ UNCHANGED avars

\* text holds the seed of the random source
GenerateCaesarShift ==
    /\ cipher = "generateCaesarShift" /\ stage = "input"
    /\ shift' = generateCaesarShift(RandomArray(1, text[1]))
    /\ stage' = "generated"
    /\ UNCHANGED <<cipher, text, ckey, enc, dkey, lib, dec>>
    /\ UNCHANGED avars

GenerateXORKey ==
    /\ cipher = "generateXORKey" /\ stage = "input"
    /\ enc' = Ok(generateXORKey(RandomArray(LengthParameter(ckey), text[1])),
                 <<"getRandomValues">>)
    /\ stage' = "generated"
    /\ UNCHANGED <<cipher, text, ckey, shift, dkey, lib, dec>>
    /\ UNCHANGED avars

CipherNext ==
    \/ CaesarEncrypt \/ CaesarDecrypt \/ CaesarDecryptText
    \/ XorEncrypt \/ XorDecrypt \/ XorDecryptText
    \/ AesEncrypt \/ AesDecrypt \/ AesDecryptText
    \/ RsaEncrypt \/ RsaDecrypt \/ RsaDecryptText
    \/ VigenereEncrypt \/ VigenereDecrypt
    \/ GenerateCaesarShift \/ GenerateXORKey

CipherSpec == CipherInit /\ [][CipherNext]_vars

(* ------------------------------------------------------------------ *)
(* Properties of the cipher functions (checked under CipherSpec)       *)
(* ------------------------------------------------------------------ *)
HasLetter(s) == \E i \in 1..Len(s) : IsLetter(s[i])

\* The letter n places further in its own alphabet, n counted modulo 26.
Rotated(code, n) ==
    IF IsUpperCase(code) THEN 65 + ((code - 65 + n) % 26)
    ELSE IF IsLowerCase(code) THEN 97 + ((code - 97 + n) % 26)
    ELSE code
RotatedText(s, n) == [i \in 1..Len(s) |-> Rotated(s[i], n)]

\* b has the length of a, its non-letters where a has them, and a letter of
\* the same case wherever a has a letter.
SameFrame(a, b) ==
    /\ Len(a) = Len(b)
    /\ \A i \in 1..Len(a) :
        /\ (~IsLetter(a[i])) => b[i] = a[i]
        /\ IsUpperCase(a[i]) => IsUpperCase(b[i])
        /\ IsLowerCase(a[i]) => IsLowerCase(b[i])

\* C1: for every text P and shift s in 1..25,
\* decryptCaesar(encryptCaesar(P, s), s) = P.
C1_CaesarRoundTrip ==
    (cipher = "Caesar" /\ stage = "roundtrip" /\ shift \in 1..25)
        => dec.val = text

C1_Witness ==
    /\ cipher = "Caesar" /\ stage = "roundtrip" /\ shift \in 1..25
    /\ HasLetter(text) /\ enc.val # text /\ dec.val = text

\* C2: for every text P and non-empty key K, encryptXOR(P, K) succeeds and
\* decryptXOR of its result under K returns P.
C2_XorRoundTrip ==
    (cipher = "XOR" /\ ckey # <<>>) =>
        /\ stage = "encrypted" => enc.ok
        /\ stage = "roundtrip" => (dec.ok /\ dec.val = text)

\* C3: for every passphrase K and text P, the empty one included, encryptAES
\* returns a token and decryptAES of the token under K returns P.
C3_AesRoundTrip ==
    cipher = "AES" =>
        /\ stage = "encrypted" => enc.ok
        /\ (stage = "roundtrip" /\ dkey = ckey) => (dec.ok /\ dec.val = text)

\* C4: with the empty key, encryptXOR and decryptXOR fail with "Key cannot be
\* empty" whatever the text, and have neither transformed a character nor
\* decoded anything when they do.
C4_XorEmptyKey ==
    (cipher = "XOR" /\ ckey = <<>>) =>
        /\ stage = "encrypted" =>
            (~enc.ok /\ enc.err = <<"Key cannot be empty">> /\ enc.did = <<>>)
        /\ stage = "decrypted" =>
            (~dec.ok /\ dec.err = <<"Key cannot be empty">> /\ dec.did = <<>>)

C4_Witness ==
    /\ cipher = "XOR" /\ ckey = <<>> /\ stage = "decrypted"
    /\ text # <<>> /\ ~atob(text).ok
    /\ dec.err = <<"Key cannot be empty">>

\* C5: for every text C and shift s in 0..25, decryptCaesar(C, s) is
\* encryptCaesar(C, 26 - s), the rotation by 26 - s; decryptCaesar(C, 0) is C.
C5_CaesarDecryptIsComplement ==
    (cipher = "Caesar" /\ stage = "decrypted" /\ shift \in 0..25) =>
        /\ dec.val = encryptCaesar(text, 26 - shift)
        /\ dec.val = RotatedText(text, 26 - shift)
        /\ shift = 0 => dec.val = text

C5_Witness ==
    /\ cipher = "Caesar" /\ stage = "decrypted" /\ shift = 0
    /\ HasLetter(text) /\ dec.val = text

\* C6: for every text and shift in 0..25, encryptCaesar and decryptCaesar keep
\* the length, leave each non-letter where it is and map each letter to a
\* letter of the same case.
C6_CaesarFrame ==
    (cipher = "Caesar" /\ shift \in 0..25) =>
        /\ stage \in {"encrypted", "roundtrip"} => SameFrame(text, enc.val)
        /\ stage = "roundtrip" => SameFrame(enc.val, dec.val)
        /\ stage = "decrypted" => SameFrame(text, dec.val)

C6_Witness ==
    /\ cipher = "Caesar" /\ shift \in 1..25 /\ stage = "encrypted"
    /\ \E i \in 1..Len(text) : IsUpperCase(text[i]) /\ enc.val[i] # text[i]
    /\ \E i \in 1..Len(text) : ~IsLetter(text[i])

\* C7: for every integer shift s, encryptCaesar(P, s) rotates each letter by
\* s mod 26 within its case, and decryptCaesar(encryptCaesar(P, s), s) = P.
C7_CaesarAnyShift ==
    cipher = "Caesar" =>
        /\ stage \in {"encrypted", "roundtrip"} =>
            (enc.val = RotatedText(text, shift % 26) /\ SameFrame(text, enc.val))
        /\ stage = "roundtrip" => dec.val = text

\* C8: decryptAES never returns the empty string; when the library throws or
\* its bytes decode to the empty text, decryptAES throws an error whose
\* message starts with "AES decryption failed".
C8_AesNeverEmpty ==
    (cipher = "AES" /\ stage \in {"roundtrip", "decrypted"}) =>
        /\ dec.ok => dec.val # <<>>
        /\ (lib.throws \/ Utf8Stringify(lib.bytes).val = <<>>) => ~dec.ok
        /\ ~dec.ok => dec.err[1] = "AES decryption failed: "

C8_Witness ==
    /\ cipher = "AES" /\ stage = "roundtrip" /\ dkey # ckey
    /\ ~lib.throws /\ lib.bytes = <<>>
    /\ dec.err = <<"AES decryption failed: ", "Invalid key or corrupted data">>

Contains(d, what) == \E i \in 1..Len(d) : d[i] = what
KeyImports(format, keyText) ==
    base64ToArrayBuffer(keyText).ok
    /\ importKey(format, base64ToArrayBuffer(keyText).val).ok

\* C11: encryptRSA and decryptRSA decode and import the key before anything
\* else: the encrypt or decrypt primitive is only called after both, and when
\* the key fails to decode or import the call fails with the primitive never
\* called and, in decryptRSA, the ciphertext never decoded.
C11_RsaKeyFirst ==
    cipher = "RSA" =>
        /\ stage \in {"encrypted", "roundtrip"} =>
            /\ Contains(enc.did, "encrypt") =>
                (SubSeq(enc.did, 1, 2) = <<"atob", "importKey">>
                 /\ KeyImports("spki", ckey))
            /\ (~KeyImports("spki", ckey)) =>
                (~enc.ok /\ enc.did \in {<<"atob">>, <<"atob", "importKey">>})
        /\ stage \in {"roundtrip", "decrypted"} =>
            /\ Contains(dec.did, "decrypt") =>
                (SubSeq(dec.did, 1, 2) = <<"atob", "importKey">>
                 /\ KeyImports("pkcs8", dkey))
            /\ (~KeyImports("pkcs8", dkey)) =>
                (~dec.ok /\ dec.did \in {<<"atob">>, <<"atob", "importKey">>})

\* decryptRSA given a decodable ciphertext and a key text that is base64 but
\* no private key
C11_Witness ==
    /\ cipher = "RSA" /\ stage = "roundtrip"
    /\ base64ToArrayBuffer(dkey).ok /\ ~KeyImports("pkcs8", dkey)
    /\ base64ToArrayBuffer(enc.val).ok
    /\ dec.err = <<"RSA decryption failed: ", "DataError">>

\* C12: generateCaesarShift returns an integer from 1 to 25 whatever byte
\* (0..255) the random source delivers.
C12_CaesarShiftRange ==
    (cipher = "generateCaesarShift" /\ stage = "generated") => shift \in 1..25

\* the largest byte, 255, gives (255 % 25) + 1 = 6
C12_Witness ==
    cipher = "generateCaesarShift" /\ stage = "generated" /\ text = <<255>> /\ shift = 6

IsAlphanumeric(c) == c \in (48..57) \cup (65..90) \cup (97..122)

\* C13: generateXORKey(length) returns exactly length characters, 16 when no
\* length is passed, every one of them in A-Z, a-z or 0-9, whatever bytes the
\* random source delivers.
C13_XorKeyShape ==
    (cipher = "generateXORKey" /\ stage = "generated") =>
        /\ enc.ok
        /\ Len(enc.val) = (IF ckey = <<>> THEN 16 ELSE ckey[1])
        /\ \A i \in 1..Len(enc.val) : IsAlphanumeric(enc.val[i])

\* no length passed, and a random source whose bytes reach 62 and above
C13_Witness ==
    /\ cipher = "generateXORKey" /\ stage = "generated" /\ ckey = <<>>
    /\ text = <<250>> /\ Len(enc.val) = 16 /\ enc.val[1] = 67

\* the number of alphabetic characters of t before position i
LettersBefore(t, i) == Cardinality({k \in 1..(i - 1) : IsLetter(t[k])})

\* C14: Vigenere encryption advances the keyword only on alphabetic
\* characters: the n-th letter of the plaintext is shifted by the n-th keyword
\* letter (cyclically), a non-alphabetic character passes through unchanged
\* and consumes no keyword letter; "AB CD" under "KEY" becomes "KF AN".
C14_VigenereSkipsNonLetters ==
    (cipher = "Vigenere" /\ stage \in {"encrypted", "roundtrip"} /\ enc.ok) =>
        /\ Len(enc.val) = Len(text)
        /\ \A i \in 1..Len(text) :
            IF IsLetter(text[i]) THEN
                enc.val[i] =
                    Rotate26(text[i],
                             LetterPos(ckey[(LettersBefore(text, i) % Len(ckey)) + 1]))
            ELSE enc.val[i] = text[i]
        /\ (text = <<65, 66, 32, 67, 68>> /\ ckey = <<75, 69, 89>>) =>
            enc.val = <<75, 70, 32, 65, 78>>

C14_Witness ==
    /\ cipher = "Vigenere" /\ stage = "encrypted"
    /\ text = <<65, 66, 32, 67, 68>> /\ ckey = <<75, 69, 89>>
    /\ enc.ok /\ enc.val[5] = 78

\* C15: for a non-empty key, what encryptXOR base64-encodes has one element
\* per byte of the plaintext, the i-th being the i-th plaintext byte XOR the
\* key byte at position i mod keyLength, a value from 0 to 255.
C15_XorOverBytes ==
    (cipher = "XOR" /\ stage = "encrypted" /\ ckey # <<>>) =>
        LET p == Utf8Bytes(text)
            k == Utf8Bytes(ckey)
        IN  /\ lib.msg = "btoa"
            /\ Len(lib.bytes) = Len(p)
            /\ \A i \in 1..Len(lib.bytes) :
                /\ lib.bytes[i] \in 0..255
                /\ i <= Len(p) => lib.bytes[i] = BitXor(p[i], k[((i - 1) % Len(k)) + 1])

(* ------------------------------------------------------------------ *)
(* App.tsx: what the user can enter                                    *)
(* ------------------------------------------------------------------ *)
\* The values of the options of the algorithm <select>
Tags == {"AES", "3DES", "RSA", "XOR", "Caesar", "Vigenere"}
\* e.target.value is cast to Algorithm unchecked: a value outside the
\* enumeration reaches handleAlgorithmChange as it is.
SelectValues == Tags \cup {"Blowfish"}
\* "", "a", the euro sign, "Cg=="
TextInputs == {<<>>, <<97>>, <<8364>>, <<67, 103, 61, 61>>}
\* "", "k", the euro sign: the key <input type="text">
KeyInputs == {<<>>, <<107>>, <<8364>>}
\* "", "3", "0", "-1", "30": the key <input type="number"> of Caesar, whose
\* value is a number or ""
NumberInputs == {<<>>, <<51>>, <<48>>, <<45, 49>>, <<51, 48>>}
KeyPairIds == {1, 2}
\* "", "!", "AAAA" and the two keys of pair 1
RsaKeyInputs ==
    {<<>>, <<33>>, <<65, 65, 65, 65>>,
     generateRSAKeyPair(1).publicKey, generateRSAKeyPair(1).privateKey}
RandomSeeds == {0, 200}

isRSA == algorithm = "RSA"

(* ------------------------------------------------------------------ *)
(* App.tsx: the field editors                                          *)
(* ------------------------------------------------------------------ *)
SetInputText ==
    /\ \E t \in TextInputs : inputText' = t
    /\ UNCHANGED <<algorithm, key, publicKey, privateKey, output, isLoading,
                   error, pending, run, cvars>>

\* The key input is rendered when the algorithm is not RSA.
SetKey ==
    /\ ~isRSA
    /\ \E k \in (IF algorithm = "Caesar" THEN NumberInputs ELSE KeyInputs) : key' = k
    /\ UNCHANGED <<inputText, algorithm, publicKey, privateKey, output, isLoading,
                   error, pending, run, cvars>>

SetPublicKey ==
    /\ isRSA
    /\ \E k \in RsaKeyInputs : publicKey' = k
    /\ UNCHANGED <<inputText, algorithm, key, privateKey, output, isLoading,
                   error, pending, run, cvars>>

SetPrivateKey ==
    /\ isRSA
    /\ \E k \in RsaKeyInputs : privateKey' = k
    /\ UNCHANGED <<inputText, algorithm, key, publicKey, output, isLoading,
                   error, pending, run, cvars>>

handleAlgorithmChange ==
    /\ \E newAlgorithm \in SelectValues \ {algorithm} : algorithm' = newAlgorithm
    /\ key' = <<>>
    /\ publicKey' = <<>>
    /\ privateKey' = <<>>
    /\ output' = <<>>
    /\ error' = <<>>
    /\ run' = NoRun
    /\ UNCHANGED <<inputText, isLoading, pending, cvars>>

(* ------------------------------------------------------------------ *)
(* App.tsx: key generation                                             *)
(* ------------------------------------------------------------------ *)
\* [key, output] after the switch of handleGenerateKey
GeneratedKey(seed) ==
    IF algorithm = "AES" THEN
        [key |-> generateAESKey(RandomArray(AESKeyBytes, seed)),
         output |-> MsgAESKeyGenerated]
    ELSE IF algorithm = "3DES" THEN
        [key |-> generate3DESKey(RandomArray(TripleDESKeyBytes, seed)),
         output |-> Msg3DESKeyGenerated]
    ELSE IF algorithm = "XOR" THEN
        [key |-> generateXORKey(RandomArray(XorKeyLength, seed)),
         output |-> MsgXORKeyGenerated]
    ELSE IF algorithm = "Caesar" THEN
        [key |-> NatToString(generateCaesarShift(RandomArray(1, seed))),
         output |-> MsgCaesarShiftGenerated(generateCaesarShift(RandomArray(1, seed)))]
    ELSE IF algorithm = "Vigenere" THEN
        [key |-> generateVigenereKey(RandomArray(VigenereKeyLength, seed)),
         output |-> MsgVigenereKeyGenerated]
    ELSE [key |-> <<>>, output |-> output]

\* The "Generate Key" button is rendered when the algorithm is not RSA and
\* is disabled while isLoading.
handleGenerateKey ==
    /\ ~isRSA /\ ~isLoading
    /\ \E seed \in RandomSeeds :
        /\ key' = GeneratedKey(seed).key
        /\ output' = GeneratedKey(seed).output
    /\ error' = <<>>
    /\ run' = NoRun
    /\ UNCHANGED <<inputText, algorithm, publicKey, privateKey, isLoading,
                   pending, cvars>>

Suspended(op, t, k) == [op |-> op, text |-> t, keyText |-> k]
Without(q, i) == SubSeq(q, 1, i - 1) \o SubSeq(q, i + 1, Len(q))

\* handleGenerateKeys on a button that stays enabled while isLoading
handleGenerateKeys_NotDisabled ==
    /\ isRSA
    /\ isLoading' = TRUE
    /\ error' = <<>>
    /\ pending' = Append(pending, Suspended("generateKeys", <<>>, <<>>))
    /\ run' = NoRun
    /\ UNCHANGED <<inputText, algorithm, key, publicKey, privateKey, output, cvars>>

\* The "Generate Key Pair" button is rendered when the algorithm is RSA and
\* is disabled while isLoading.  The run suspends at await generateRSAKeyPair().
handleGenerateKeys ==
    /\ isRSA /\ ~isLoading
    /\ isLoading' = TRUE
    /\ error' = <<>>
    /\ pending' = Append(pending, Suspended("generateKeys", <<>>, <<>>))
    /\ run' = NoRun
    /\ UNCHANGED <<inputText, algorithm, key, publicKey, privateKey, output, cvars>>

\* generateRSAKeyPair() resolved: the rest of the try block and finally.
GenerateKeysResolved ==
    /\ \E i \in 1..Len(pending), n \in KeyPairIds :
        /\ pending[i].op = "generateKeys"
        /\ publicKey' = generateRSAKeyPair(n).publicKey
        /\ privateKey' = generateRSAKeyPair(n).privateKey
        /\ pending' = Without(pending, i)
    /\ output' = MsgRSAKeysGenerated
    /\ isLoading' = FALSE
    /\ UNCHANGED <<inputText, algorithm, key, error, run, cvars>>

\* GenerateKeysRejected without the finally block
GenerateKeysRejected_NoFinally ==
    /\ \E i \in 1..Len(pending) :
        /\ pending[i].op = "generateKeys"
        /\ pending' = Without(pending, i)
    /\ error' = <<"Failed to generate keys: ", "OperationError">>
    /\ UNCHANGED <<inputText, algorithm, key, publicKey, privateKey, output, run,
                   isLoading, cvars>>

\* generateRSAKeyPair() rejected: catch and finally.
GenerateKeysRejected ==
    /\ \E i \in 1..Len(pending) :
        /\ pending[i].op = "generateKeys"
        /\ pending' = Without(pending, i)
    /\ error' = <<"Failed to generate keys: ", "OperationError">>
    /\ isLoading' = FALSE
    /\ UNCHANGED <<inputText, algorithm, key, publicKey, privateKey, output, run,
                   cvars>>

(* ------------------------------------------------------------------ *)
(* App.tsx: handleEncrypt and handleDecrypt                            *)
(* ------------------------------------------------------------------ *)
\* How the try block of a handler ended: by a throw (message) or at
\* setOutput(result); dispatched tells whether the switch was reached, fn and
\* shift which cipher function it called.
Threw(msg, d, fn, sh) ==
    [threw |-> TRUE, result |-> <<>>, message |-> msg, dispatched |-> d,
     fn |-> fn, shift |-> sh]
Returned(v, fn, sh) ==
    [threw |-> FALSE, result |-> v, message |-> <<>>, dispatched |-> TRUE,
     fn |-> fn, shift |-> sh]
OfCall(res, fn) ==
    IF res.ok THEN Returned(res.val, fn, 0) ELSE Threw(res.err, TRUE, fn, 0)

\* The try block of handleEncrypt, up to setOutput(result) or the throw.
EncryptTry(r) ==
    IF inputText = <<>> THEN Threw(<<"Please enter text to encrypt">>, FALSE, "none", 0)
    ELSE IF algorithm = "AES" THEN
        IF key = <<>> THEN Threw(<<"Please enter a key">>, TRUE, "none", 0)
        ELSE OfCall(encryptAES(inputText, key, r), "encryptAES")
    ELSE IF algorithm = "3DES" THEN
        IF key = <<>> THEN Threw(<<"Please enter a key">>, TRUE, "none", 0)
        ELSE OfCall(encrypt3DES(inputText, key, r), "encrypt3DES")
    ELSE IF algorithm = "RSA" THEN
        IF publicKey = <<>>
            THEN Threw(<<"Please generate or enter a public key">>, TRUE, "none", 0)
            ELSE OfCall(encryptRSA(inputText, publicKey, r), "encryptRSA")
    ELSE IF algorithm = "XOR" THEN
        IF key = <<>> THEN Threw(<<"Please enter a key">>, TRUE, "none", 0)
        ELSE OfCall(encryptXOR(inputText, key), "encryptXOR")
    ELSE IF algorithm = "Caesar" THEN
        IF ShiftOf(key) = 0
            THEN Threw(<<"Please enter a valid shift number">>, TRUE, "none", 0)
            ELSE Returned(encryptCaesar(inputText, ShiftOf(key)), "encryptCaesar",
                          ShiftOf(key))
    ELSE IF algorithm = "Vigenere" THEN
        IF key = <<>> THEN Threw(<<"Please enter a key">>, TRUE, "none", 0)
        ELSE OfCall(encryptVigenere(inputText, key), "encryptVigenere")
    ELSE Returned(<<>>, "none", 0)

\* The try block of handleDecrypt, up to setOutput(result) or the throw.
DecryptTry(o) ==
    IF inputText = <<>> THEN Threw(<<"Please enter text to decrypt">>, FALSE, "none", 0)
    ELSE IF algorithm = "AES" THEN
        IF key = <<>> THEN Threw(<<"Please enter a key">>, TRUE, "none", 0)
        ELSE OfCall(decryptAES(inputText, key, o), "decryptAES")
    ELSE IF algorithm = "3DES" THEN
        IF key = <<>> THEN Threw(<<"Please enter a key">>, TRUE, "none", 0)
        ELSE OfCall(decrypt3DES(inputText, key, o), "decrypt3DES")
    ELSE IF algorithm = "RSA" THEN
        IF privateKey = <<>>
            THEN Threw(<<"Please generate or enter a private key">>, TRUE, "none", 0)
            ELSE OfCall(decryptRSA(inputText, privateKey), "decryptRSA")
    ELSE IF algorithm = "XOR" THEN
        IF key = <<>> THEN Threw(<<"Please enter a key">>, TRUE, "none", 0)
        ELSE OfCall(decryptXOR(inputText, key), "decryptXOR")
    ELSE IF algorithm = "Caesar" THEN
        IF ShiftOf(key) = 0
            THEN Threw(<<"Please enter a valid shift number">>, TRUE, "none", 0)
            ELSE Returned(decryptCaesar(inputText, ShiftOf(key)), "decryptCaesar",
                          ShiftOf(key))
    ELSE IF algorithm = "Vigenere" THEN
        IF key = <<>> THEN Threw(<<"Please enter a key">>, TRUE, "none", 0)
        ELSE OfCall(decryptVigenere(inputText, key), "decryptVigenere")
    ELSE Returned(<<>>, "none", 0)

\* The run suspends when it reaches crypto.subtle.importKey: the text and
\* the key are present and the key text is base64.  Every other run ends
\* before the handler gives up control.
EncryptSuspends ==
    inputText # <<>> /\ isRSA /\ publicKey # <<>> /\ base64ToArrayBuffer(publicKey).ok
DecryptSuspends ==
    inputText # <<>> /\ isRSA /\ privateKey # <<>> /\ base64ToArrayBuffer(privateKey).ok

RunOf(handler, t) ==
    [handler |-> handler, dispatched |-> t.dispatched, tag |-> algorithm,
     fn |-> t.fn, shift |-> t.shift]

\* The Encrypt button is disabled while isLoading.
handleEncrypt ==
    /\ ~isLoading
    /\ IF EncryptSuspends THEN
            /\ isLoading' = TRUE
            /\ error' = <<>>
            /\ output' = <<>>
            /\ pending' = Append(pending, Suspended("encrypt", inputText, publicKey))
            /\ run' = RunOf("handleEncrypt", Returned(<<>>, "encryptRSA", 0))
       ELSE \E r \in Salts :
            /\ isLoading' = FALSE
            /\ error' = EncryptTry(r).message
            /\ output' = EncryptTry(r).result
            /\ pending' = pending
            /\ run' = RunOf("handleEncrypt", EncryptTry(r))
    /\ UNCHANGED <<inputText, algorithm, key, publicKey, privateKey, cvars>>

\* await encryptRSA(...) settled: setOutput(result) or catch, then finally.
EncryptSettled ==
    /\ \E i \in 1..Len(pending), r \in Salts :
        /\ pending[i].op = "encrypt"
        /\ LET res == encryptRSA(pending[i].text, pending[i].keyText, r)
           IN  /\ output' = IF res.ok THEN res.val ELSE output
               /\ error' = IF res.ok THEN error ELSE res.err
        /\ pending' = Without(pending, i)
    /\ isLoading' = FALSE
    /\ UNCHANGED <<inputText, algorithm, key, publicKey, privateKey, run, cvars>>

\* The Decrypt button is disabled while isLoading.
handleDecrypt ==
    /\ ~isLoading
    /\ IF DecryptSuspends THEN
            /\ isLoading' = TRUE
            /\ error' = <<>>
            /\ output' = <<>>
            /\ pending' = Append(pending, Suspended("decrypt", inputText, privateKey))
            /\ run' = RunOf("handleDecrypt", Returned(<<>>, "decryptRSA", 0))
       ELSE \E o \in AesOracles :
            /\ isLoading' = FALSE
            /\ error' = DecryptTry(o).message
            /\ output' = DecryptTry(o).result
            /\ pending' = pending
            /\ run' = RunOf("handleDecrypt", DecryptTry(o))
    /\ UNCHANGED <<inputText, algorithm, key, publicKey, privateKey, cvars>>

\* await decryptRSA(...) settled: setOutput(result) or catch, then finally.
DecryptSettled ==
    /\ \E i \in 1..Len(pending) :
        /\ pending[i].op = "decrypt"
        /\ LET res == decryptRSA(pending[i].text, pending[i].keyText)
           IN  /\ output' = IF res.ok THEN res.val ELSE output
               /\ error' = IF res.ok THEN error ELSE res.err
        /\ pending' = Without(pending, i)
    /\ isLoading' = FALSE
    /\ UNCHANGED <<inputText, algorithm, key, publicKey, privateKey, run, cvars>>

Init == AppInit /\ CipherIdle

Next ==
    \/ SetInputText \/ SetKey \/ SetPublicKey \/ SetPrivateKey
    \/ handleAlgorithmChange
    \/ handleGenerateKey
    \/ handleGenerateKeys \/ GenerateKeysResolved \/ GenerateKeysRejected
    \/ handleEncrypt \/ EncryptSettled
    \/ handleDecrypt \/ DecryptSettled

Spec == Init /\ [][Next]_vars

\* An awaited promise settles and its run leaves pending: the steps that do
\* so are those of GenerateKeysResolved, GenerateKeysRejected, EncryptSettled
\* and DecryptSettled, one of which is enabled whenever pending is not empty.
PromiseSettles == \E i \in 1..Len(pending) : pending' = Without(pending, i)

\* Every awaited promise settles: generateRSAKeyPair(), encryptRSA(...) and
\* decryptRSA(...) resolve or reject once they have been called.
FairSpec == Spec /\ WF_pending(PromiseSettles)

(* ------------------------------------------------------------------ *)
(* Properties of the handlers (checked under Spec)                     *)
(* ------------------------------------------------------------------ *)
\* C9: a handleEncrypt or handleDecrypt run whose switch meets an algorithm
\* tag outside the enumeration ends with an error: it does not end with the
\* output empty and no error.
C9_UnknownTagFails ==
    (run.dispatched /\ run.tag \notin Tags /\ ~isLoading) => error # <<>>

\* C10: encryptCaesar and decryptCaesar are only called with a shift in
\* 1..25; any other shift is rejected before the call.
C10_ShiftValidated ==
    run.fn \in {"encryptCaesar", "decryptCaesar"} => run.shift \in 1..25

\* C16: at most one suspending operation is in flight: isLoading is true
\* exactly while one is, and while it is true no handleEncrypt, handleDecrypt,
\* handleGenerateKey or handleGenerateKeys run starts.
C16_OneInFlight ==
    [][/\ Len(pending') <= 1
       /\ isLoading' <=> (Len(pending') = 1)
       /\ isLoading =>
            /\ Len(pending') <= Len(pending)
            /\ ~(handleEncrypt \/ handleDecrypt \/ handleGenerateKey
                 \/ handleGenerateKeys)]_vars

\* an RSA encryption in flight with the algorithm changed meanwhile
C16_Witness ==
    isLoading /\ Len(pending) = 1 /\ pending[1].op = "encrypt" /\ algorithm = "XOR"

AllCleared ==
    key = <<>> /\ publicKey = <<>> /\ privateKey = <<>> /\ output = <<>> /\ error = <<>>

\* C17: once handleAlgorithmChange has cleared key, publicKey, privateKey,
\* output and error, the completion of an operation started before the change
\* leaves them empty.  (An operation still pending under an algorithm other
\* than RSA was started before the change, all of them being RSA operations.)
C17_ClearedFieldsStayEmpty ==
    [][(pending # <<>> /\ Len(pending') < Len(pending) /\ ~isRSA /\ AllCleared)
        => AllCleared']_vars

\* C18: whenever isLoading is true it becomes false again, the awaited
\* primitive having settled with a result or with an error.
C18_LoadingEnds == isLoading ~> ~isLoading

\* a decryption suspended at await decryptRSA(...)
C18_Witness ==
    isLoading /\ Len(pending) = 1 /\ pending[1].op = "decrypt"

====
